---- MODULE Spec2Model ----
(***************************************************************************)
(* Model of tf2onnx/onnx_opset/rnn.py: the lowering of the fused           *)
(* LSTMBlockCell node (LSTMBlockCell.version_1 / version_7) and of the     *)
(* fused CudnnRNN node (CudnnRNN.version_11) into primitive ONNX nodes.    *)
(*                                                                         *)
(* The graph is the sequence of nodes in creation order.  A node is a      *)
(* record [name, op, input, output, attr, value]; value references are the *)
(* strings the code builds.  Each lowering runs as a sequence of steps,    *)
(* one per statement (or small group of statements) of the routine, so     *)
(* that the intermediate graphs of a lowering are states of the model.     *)
(* Floats (forget_bias, cell_clip, dropout) are modelled by integers.      *)
(***************************************************************************)
EXTENDS Integers, Sequences, FiniteSets, TLC

VARIABLES
    cfg,       \* the fused node's attributes, declared shapes, opset: read-only
    nodes,     \* ctx: the nodes of the graph, in creation order
    name_ctr,  \* utils.INTERNAL_NAME, the counter behind utils.make_name
    shapes,    \* ctx: value reference -> declared shape
    dtypes,    \* ctx: value reference -> element type
    lv,        \* the local variables of the running routine
    log,       \* history: the rewiring / removal calls made so far
    pc,        \* position in the running routine
    err        \* message of the raised exception, "" when none

vars == <<cfg, nodes, name_ctr, shapes, dtypes, lv, log, pc, err>>

----------------------------------------------------------------------------
(* Bounds of the explored inputs.                                          *)

MaxH == 4        \* leading dimension of the initial hidden state H: 1..MaxH
MaxWDim == 8     \* trailing dimension of the LSTM weight W: 1..MaxWDim
MaxClip == 2     \* cell_clip ranges over -1..MaxClip

----------------------------------------------------------------------------
(* Generic helpers.                                                        *)

RECURSIVE SeqProd(_)
SeqProd(s) == IF s = <<>> THEN 1 ELSE Head(s) * SeqProd(Tail(s))

Range(s) == {s[k] : k \in DOMAIN s}

Positions(s, v) == {k \in DOMAIN s : s[k] = v}

\* Python's int(a / b) under true division: truncation towards zero.
PyIntDiv(a, b) == IF a >= 0 THEN a \div b ELSE -((-a) \div b)

NoValue == [dims |-> <<>>, data |-> <<>>, dtype |-> ""]

Attr(k, v, s) == [k |-> k, v |-> v, s |-> s]

MkNode(name, op, input, output, attr, value) ==
    [name |-> name, op |-> op, input |-> input, output |-> output,
     attr |-> attr, value |-> value]

Put(f, k, v) == [n \in (DOMAIN f) \cup {k} |-> IF n = k THEN v ELSE f[n]]

----------------------------------------------------------------------------
(* The graph context (tf2onnx Graph) and tf2onnx.utils, as used by rnn.py. *)
(* A context value c is [nodes, ctr, shapes, dtypes, lv, log].             *)

\* utils.make_name: "<name>__<counter>", the counter incremented first.
make_name(c, name) == name \o "__" \o ToString(c.ctr + 1)

tick(c) == [c EXCEPT !.ctr = @ + 1]

\* Element type of a freshly created node's outputs: that of its first
\* input whose type is known.
InferDtype(c, inputs) ==
    LET known == {k \in DOMAIN inputs : inputs[k] \in DOMAIN c.dtypes}
    IN IF known = {} THEN ""
       ELSE c.dtypes[inputs[CHOOSE k \in known : \A j \in known : k <= j]]

RECURSIVE PutAll(_, _, _)
PutAll(f, ks, v) == IF ks = <<>> THEN f ELSE PutAll(Put(f, Head(ks), v), Tail(ks), v)

\* ctx.make_node(op_type, inputs, attr=..., outputs=...): the node's name
\* is made by make_name, its outputs are the given ones.
make_node_named(c, op_type, inputs, attr, outputs) ==
    LET name == make_name(c, op_type)
        dt == InferDtype(c, inputs)
    IN [c EXCEPT !.nodes = Append(@, MkNode(name, op_type, inputs, outputs, attr, NoValue)),
                 !.ctr = @ + 1,
                 !.dtypes = IF dt = "" THEN @ ELSE PutAll(@, outputs, dt)]

\* ctx.make_node(op_type, inputs, attr=..., output_count=n): outputs
\* default to "<name>:0" .. "<name>:<n-1>".
make_node(c, op_type, inputs, attr, output_count) ==
    LET name == make_name(c, op_type)
    IN make_node_named(c, op_type, inputs, attr,
                       [k \in 1..output_count |-> name \o ":" \o ToString(k - 1)])

\* ctx.make_const(name, np_val): a Const node called name whose single
\* output is name, with the value's shape and element type recorded.
make_const(c, name, value) ==
    [c EXCEPT !.nodes = Append(@, MkNode(name, "Const", <<>>, <<name>>, <<>>, value)),
              !.shapes = Put(@, name, value.dims),
              !.dtypes = Put(@, name, value.dtype)]

LastNode(c) == c.nodes[Len(c.nodes)]

\* ctx.replace_all_inputs(ctx.get_nodes(), old, new): every occurrence of
\* old in every node's input list becomes new, in place.
replace_all_inputs(c, old, new) ==
    [c EXCEPT !.nodes = [j \in DOMAIN @ |->
                           [@[j] EXCEPT !.input = [p \in DOMAIN @ |->
                                                     IF @[p] = old THEN new ELSE @[p]]]],
              !.log = Append(@, [ev |-> "replace_all_inputs", a |-> old, b |-> new])]

\* ctx.copy_dtype(old, new), ctx.copy_shape(old, new).
copy_dtype(c, old, new) ==
    IF old \in DOMAIN c.dtypes THEN [c EXCEPT !.dtypes = Put(@, new, c.dtypes[old])] ELSE c

copy_shape(c, old, new) ==
    IF old \in DOMAIN c.shapes THEN [c EXCEPT !.shapes = Put(@, new, c.shapes[old])] ELSE c

\* ctx.remove_node(name).
remove_node(c, name) ==
    [c EXCEPT !.nodes = SelectSeq(@, LAMBDA n : n.name # name),
              !.log = Append(@, [ev |-> "remove_node", a |-> name, b |-> ""])]

----------------------------------------------------------------------------
(* The inputs: a configuration g fixes the fused node and its graph.       *)

LSTMCfgs ==
    [op : {"LSTMBlockCell"}, entry : {"version_1", "version_7"}, opset : {10, 11},
     forget_bias : {1}, cell_clip : -1..MaxClip, use_peephole : BOOLEAN,
     w_shape : {<<3, d>> : d \in 1..MaxWDim} \cup {<<MaxWDim>>, <<1, 3, MaxWDim>>},
     a : 0..6,
     rnn_mode : {"lstm"}, dropout : {0}, input_mode : {"linear_input"},
     direction : {"unidirectional"}, H0 : {1}]

CudnnCfgs ==
    [op : {"CudnnRNN"}, entry : {"version_11"}, opset : {11},
     forget_bias : {0}, cell_clip : {0}, use_peephole : {FALSE},
     w_shape : {<<>>}, a : 0..1,
     rnn_mode : {"gru", "lstm"}, dropout : {0, 1},
     input_mode : {"linear_input", "skip_input"},
     direction : {"unidirectional", "bidirectional"}, H0 : 1..MaxH]

Cfgs == LSTMCfgs \cup CudnnCfgs

HiddenSize == 2     \* H_shape[2] of the explored CudnnRNN nodes
InputSize == 3      \* X_shape[2] of the explored CudnnRNN nodes

LSTMInputs == <<"x:0", "cs_prev:0", "h_prev:0", "w:0", "wci:0", "wcf:0", "wco:0", "b:0">>

CudnnInputs == <<"seq:0", "h0:0", "c0:0", "params:0">>

\* The fused node handed to the lowering routine.
TheNode(g) ==
    IF g.op = "LSTMBlockCell"
    THEN MkNode("lstm", "LSTMBlockCell", LSTMInputs,
                [k \in 1..7 |-> "lstm:" \o ToString(k - 1)],
                <<Attr("forget_bias", <<g.forget_bias>>, ""),
                  Attr("cell_clip", <<g.cell_clip>>, ""),
                  Attr("use_peephole", <<IF g.use_peephole THEN 1 ELSE 0>>, "")>>,
                NoValue)
    ELSE MkNode("rnn", "CudnnRNN", CudnnInputs,
                [k \in 1..4 |-> "rnn:" \o ToString(k - 1)],
                <<Attr("rnn_mode", <<>>, g.rnn_mode),
                  Attr("dropout", <<g.dropout>>, ""),
                  Attr("input_mode", <<>>, g.input_mode),
                  Attr("direction", <<>>, g.direction)>>,
                NoValue)

\* node.get_attr(k) / node.attr[k]
get_attr(node, k) ==
    node.attr[CHOOSE j \in DOMAIN node.attr : node.attr[j].k = k]

Placeholder(name) == MkNode(name, "Placeholder", <<>>, <<name>>, <<>>, NoValue)

\* The graph before the lowering: producers of the fused node's inputs,
\* the fused node, and the consumers of its outputs.
InitNodes(g) ==
    LET node == TheNode(g)
        srcs == [k \in DOMAIN node.input |-> Placeholder(node.input[k])]
    IN srcs \o <<Placeholder("other:0"), node>> \o
       (IF g.op = "LSTMBlockCell"
        THEN <<MkNode("consA", "Sub", <<node.output[g.a + 1], "other:0", node.output[g.a + 1]>>,
                      <<"consA:0">>, <<>>, NoValue),
               MkNode("consAll", "Concat", [k \in 1..7 |-> node.output[8 - k]],
                      <<"consAll:0">>, <<>>, NoValue)>>
        ELSE <<MkNode("consA", "Sub", <<node.output[g.a + 1], "other:0", node.output[2 - g.a]>>,
                      <<"consA:0">>, <<>>, NoValue),
               MkNode("consB", "Relu", <<node.output[2]>>, <<"consB:0">>, <<>>, NoValue)>>)

InitShapes(g) ==
    IF g.op = "LSTMBlockCell"
    THEN [n \in {"w:0"} \cup Range(TheNode(g).output) |->
             IF n = "w:0" THEN g.w_shape ELSE <<1, 2>>]
    ELSE [n \in {"seq:0", "h0:0"} |->
             IF n = "seq:0" THEN <<5, 1, InputSize>> ELSE <<g.H0, 1, HiddenSize>>]

InitDtypes(g) ==
    [n \in Range(TheNode(g).input) \cup Range(TheNode(g).output) \cup {"other:0"} |-> "float32"]

EmptyLv ==
    [nodes |-> <<>>,
     x |-> "", cs_prev |-> "", h_prev |-> "", w |-> "", wci |-> "", wcf |-> "",
     wco |-> "", b |-> "", forget_bias |-> 0, cell_clip |-> 0, use_peephole |-> FALSE,
     xh |-> "", xh_w |-> "", w_shape |-> <<>>, merged |-> "", w_last_dim |-> 0,
     i |-> "", ci |-> "", f |-> "", o |-> "", f_node |-> "", ci_node |-> "",
     ci_i |-> "", cs_prev_f |-> "", cs |-> "", co_node |-> "", h_node |-> "", k |-> 0,
     X |-> "", X_shape |-> <<>>, H |-> "", H_shape |-> <<>>, P |-> "",
     num_dirs |-> 0, num_layers |-> 0, hidden_size |-> 0, input_size |-> 0,
     w_shape_const |-> "", r_shape_const |-> "", b_shape_const |-> "",
     zero_const |-> "", w_end |-> 0, w_end_const |-> "", r_end |-> 0,
     r_end_const |-> "", b_end |-> 0, b_end_const |-> "",
     WS |-> <<>>, RS |-> <<>>, BS |-> <<>>, HS |-> <<>>, YHS |-> <<>>,
     W_flattened |-> "", R_flattened |-> "", B_flattened |-> "",
     W |-> "", R |-> "", B |-> "", XNF |-> "", XNB |-> "", layer |-> 0]

InitCtx(g) ==
    [nodes |-> InitNodes(g), ctr |-> 0, shapes |-> InitShapes(g),
     dtypes |-> InitDtypes(g), lv |-> EmptyLv, log |-> <<>>]

Ctx == [nodes |-> nodes, ctr |-> name_ctr, shapes |-> shapes, dtypes |-> dtypes,
        lv |-> lv, log |-> log]

SetCtx(c) ==
    /\ nodes' = c.nodes
    /\ name_ctr' = c.ctr
    /\ shapes' = c.shapes
    /\ dtypes' = c.dtypes
    /\ lv' = c.lv
    /\ log' = c.log

Init ==
    /\ cfg \in Cfgs
    /\ nodes = InitNodes(cfg)
    /\ name_ctr = 0
    /\ shapes = InitShapes(cfg)
    /\ dtypes = InitDtypes(cfg)
    /\ lv = EmptyLv
    /\ log = <<>>
    /\ pc = cfg.entry
    /\ err = ""

----------------------------------------------------------------------------
(* LSTMBlockCell.version_1, statement by statement.  Each operator maps    *)
(* the context before the statement(s) to the context after.               *)

\* rnn.py 73-77: nodes = []; unpack node.input; read the three attributes.
lstm_read_attrs(c, node) ==
    [c EXCEPT !.lv = [@ EXCEPT !.nodes = <<>>,
                               !.x = node.input[1], !.cs_prev = node.input[2],
                               !.h_prev = node.input[3], !.w = node.input[4],
                               !.wci = node.input[5], !.wcf = node.input[6],
                               !.wco = node.input[7], !.b = node.input[8],
                               !.forget_bias = get_attr(node, "forget_bias").v[1],
                               !.cell_clip = get_attr(node, "cell_clip").v[1],
                               !.use_peephole = (get_attr(node, "use_peephole").v[1] # 0)]]

\* rnn.py 79-84: make_sigmoid(i, w, b) = Sigmoid(Add(Mul(i, w), b)); the
\* three nodes are appended to the local list; returns the Sigmoid output.
make_sigmoid(c, i, w, b) ==
    LET c1 == make_node(c, "Mul", <<i, w>>, <<>>, 1)
        i_w_node == LastNode(c1)
        c2 == make_node(c1, "Add", <<i_w_node.output[1], b>>, <<>>, 1)
        i_w_b_node == LastNode(c2)
        c3 == make_node(c2, "Sigmoid", <<i_w_b_node.output[1]>>, <<>>, 1)
        output_node == LastNode(c3)
    IN [c3 EXCEPT !.lv.nodes = @ \o <<i_w_node.name, i_w_b_node.name, output_node.name>>]

\* rnn.py 87: xh = Concat(x, h_prev), axis 1.
lstm_xh(c) ==
    LET c1 == make_node(c, "Concat", <<c.lv.x, c.lv.h_prev>>, <<Attr("axis", <<1>>, "")>>, 1)
    IN [c1 EXCEPT !.lv.xh = LastNode(c1).output[1]]

\* rnn.py 90-91: xh_w = MatMul(xh, w); w_shape = ctx.get_shape(w).
lstm_xh_w(c) ==
    LET c1 == make_node(c, "MatMul", <<c.lv.xh, c.lv.w>>, <<>>, 1)
    IN [c1 EXCEPT !.lv.xh_w = LastNode(c1).output[1],
                  !.lv.w_shape = c.shapes[c.lv.w]]

\* rnn.py 92: the condition under which RuntimeError is raised.
lstm_bad_w_shape(w_shape) ==
    Len(w_shape) # 2 \/ w_shape[2] % 4 # 0

\* rnn.py 93: the message of the RuntimeError.
lstm_w_shape_msg(node) ==
    "shape of W of LSTMBlockCell " \o node.name \o " should be times of 4"

\* rnn.py 94-102: merged = Add(xh_w, b); Split into i, ci, f, o.
lstm_split(c) ==
    LET c1 == make_node(c, "Add", <<c.lv.xh_w, c.lv.b>>, <<>>, 1)
        merged == LastNode(c1).output[1]
        w_last_dim == PyIntDiv(c.lv.w_shape[2], 4)
        split == [k \in 1..4 |-> w_last_dim]
        c2 == make_node(c1, "Split", <<merged>>,
                        <<Attr("axis", <<1>>, ""), Attr("split", split, "")>>, 4)
        out == LastNode(c2).output
    IN [c2 EXCEPT !.lv.merged = merged, !.lv.w_last_dim = w_last_dim,
                  !.lv.i = out[1], !.lv.ci = out[2], !.lv.f = out[3], !.lv.o = out[4]]

\* rnn.py 105-109: f_node = Add(f, Const(forget_bias)), a scalar constant.
lstm_forget_bias(c, node) ==
    LET name == make_name(c, node.name \o "__forget_bias")
        c1 == make_const(tick(c), name,
                         [dims |-> <<>>, data |-> <<c.lv.forget_bias>>, dtype |-> "float32"])
        c2 == make_node(c1, "Add", <<c.lv.f, LastNode(c1).output[1]>>, <<>>, 1)
    IN [c2 EXCEPT !.lv.f_node = LastNode(c2).output[1]]

\* Variant of lstm_zeros: wco is left bound to the node's input.
lstm_zeros_wco_kept(c, node) ==
    IF ~c.lv.use_peephole
    THEN LET name == make_name(c, node.name \o "__zeros_const")
             c1 == make_const(tick(c), name,
                              [dims |-> <<c.lv.w_last_dim>>,
                               data |-> [k \in 1..c.lv.w_last_dim |-> 0],
                               dtype |-> "float32"])
             zeros == LastNode(c1)
         IN [c1 EXCEPT !.lv.nodes = Append(@, zeros.name),
                       !.lv.wci = zeros.output[1],
                       !.lv.wcf = zeros.output[1]]
    ELSE c

\* rnn.py 111-119: without peepholes wci, wcf, wco all become one
\* zero-filled constant of shape [w_last_dim].
lstm_zeros(c, node) ==
    IF ~c.lv.use_peephole
    THEN LET name == make_name(c, node.name \o "__zeros_const")
             c1 == make_const(tick(c), name,
                              [dims |-> <<c.lv.w_last_dim>>,
                               data |-> [k \in 1..c.lv.w_last_dim |-> 0],
                               dtype |-> "float32"])
             zeros == LastNode(c1)
         IN [c1 EXCEPT !.lv.nodes = Append(@, zeros.name),
                       !.lv.wci = zeros.output[1],
                       !.lv.wcf = zeros.output[1],
                       !.lv.wco = zeros.output[1]]
    ELSE c

\* rnn.py 122: i = sigmoid(cs_prev .* wci + i)
lstm_i(c) ==
    LET c1 == make_sigmoid(c, c.lv.cs_prev, c.lv.wci, c.lv.i)
    IN [c1 EXCEPT !.lv.i = LastNode(c1).output[1]]

\* rnn.py 124: f = sigmoid(cs_prev .* wcf + f_node)
lstm_f(c) ==
    LET c1 == make_sigmoid(c, c.lv.cs_prev, c.lv.wcf, c.lv.f_node)
    IN [c1 EXCEPT !.lv.f = LastNode(c1).output[1]]

\* rnn.py 126-131: ci_node = Tanh(ci); cs = ci_node .* i + cs_prev .* f
lstm_cs(c) ==
    LET c1 == make_node(c, "Tanh", <<c.lv.ci>>, <<>>, 1)
        ci_node == LastNode(c1).output[1]
        c2 == make_node(c1, "Mul", <<ci_node, c.lv.i>>, <<>>, 1)
        ci_i == LastNode(c2).output[1]
        c3 == make_node(c2, "Mul", <<c.lv.cs_prev, c.lv.f>>, <<>>, 1)
        cs_prev_f == LastNode(c3).output[1]
        c4 == make_node(c3, "Add", <<ci_i, cs_prev_f>>, <<>>, 1)
    IN [c4 EXCEPT !.lv.ci_node = ci_node, !.lv.ci_i = ci_i,
                  !.lv.cs_prev_f = cs_prev_f, !.lv.cs = LastNode(c4).output[1]]

\* Variant of lstm_clip: the attribute form is still used at opset 11.
lstm_clip_late_threshold(c, node, opset) ==
    IF c.lv.cell_clip > 0
    THEN IF opset <= 11
         THEN LET c1 == make_node(c, "Clip", <<c.lv.cs>>,
                                  <<Attr("max", <<c.lv.cell_clip>>, ""),
                                    Attr("min", <<-c.lv.cell_clip>>, "")>>, 1)
              IN [c1 EXCEPT !.lv.nodes = Append(@, LastNode(c1).name),
                            !.lv.cs = LastNode(c1).output[1]]
         ELSE LET dtype == c.dtypes[c.lv.cs]
                  name_min == make_name(c, node.name \o "_min")
                  name_max == make_name(tick(c), node.name \o "_max")
                  c1 == make_const(tick(tick(c)), name_min,
                                   [dims |-> <<>>, data |-> <<-c.lv.cell_clip>>, dtype |-> dtype])
                  c2 == make_const(c1, name_max,
                                   [dims |-> <<>>, data |-> <<c.lv.cell_clip>>, dtype |-> dtype])
                  c3 == make_node(c2, "Clip", <<c.lv.cs, name_min, name_max>>, <<>>, 1)
              IN [c3 EXCEPT !.lv.nodes = Append(@, LastNode(c3).name),
                            !.lv.cs = LastNode(c3).output[1]]
    ELSE c

\* rnn.py 133-146: cs = clip(cs) when cell_clip > 0; bounds are the
\* attributes max, min below opset 11, two constant inputs from opset 11.
lstm_clip(c, node, opset) ==
    IF c.lv.cell_clip > 0
    THEN IF opset < 11
         THEN LET c1 == make_node(c, "Clip", <<c.lv.cs>>,
                                  <<Attr("max", <<c.lv.cell_clip>>, ""),
                                    Attr("min", <<-c.lv.cell_clip>>, "")>>, 1)
              IN [c1 EXCEPT !.lv.nodes = Append(@, LastNode(c1).name),
                            !.lv.cs = LastNode(c1).output[1]]
         ELSE LET dtype == c.dtypes[c.lv.cs]
                  name_min == make_name(c, node.name \o "_min")
                  name_max == make_name(tick(c), node.name \o "_max")
                  c1 == make_const(tick(tick(c)), name_min,
                                   [dims |-> <<>>, data |-> <<-c.lv.cell_clip>>, dtype |-> dtype])
                  c2 == make_const(c1, name_max,
                                   [dims |-> <<>>, data |-> <<c.lv.cell_clip>>, dtype |-> dtype])
                  c3 == make_node(c2, "Clip", <<c.lv.cs, name_min, name_max>>, <<>>, 1)
              IN [c3 EXCEPT !.lv.nodes = Append(@, LastNode(c3).name),
                            !.lv.cs = LastNode(c3).output[1]]
    ELSE c

\* rnn.py 149: o = sigmoid(cs .* wco + o)
lstm_o(c) ==
    LET c1 == make_sigmoid(c, c.lv.cs, c.lv.wco, c.lv.o)
    IN [c1 EXCEPT !.lv.o = LastNode(c1).output[1]]

\* rnn.py 151-153: co_node = Tanh(cs); h_node = co_node .* o
lstm_h(c) ==
    LET c1 == make_node(c, "Tanh", <<c.lv.cs>>, <<>>, 1)
        co_node == LastNode(c1).output[1]
        c2 == make_node(c1, "Mul", <<co_node, c.lv.o>>, <<>>, 1)
    IN [c2 EXCEPT !.lv.co_node = co_node, !.lv.h_node = LastNode(c2).output[1]]

\* rnn.py 155-158: replace_output(old_output, new_output)
replace_output(c, old_output, new_output) ==
    copy_shape(copy_dtype(replace_all_inputs(c, old_output, new_output),
                          old_output, new_output),
               old_output, new_output)

\* Variant of lstm_new_output: outputs 4 (ci) and 5 (co) exchanged.
lstm_new_output_swapped(l, k) ==
    <<l.i, l.cs, l.f, l.o, l.co_node, l.ci_node, l.h_node>>[k + 1]

\* rnn.py 160-166: the value that replaces node.output[k], k = 0..6.
lstm_new_output(l, k) ==
    <<l.i, l.cs, l.f, l.o, l.ci_node, l.co_node, l.h_node>>[k + 1]

\* rnn.py 160-166: the k-th replace_output call.
lstm_replace(c, node) ==
    LET c1 == replace_output(c, node.output[c.lv.k + 1], lstm_new_output(c.lv, c.lv.k))
    IN [c1 EXCEPT !.lv.k = @ + 1]

----------------------------------------------------------------------------
(* CudnnRNN.version_11, statement by statement.                            *)

\* utils.make_sure(cond, msg): raises ValueError carrying msg unless cond.
make_sure_msg(msg) == "make_sure failure: " \o msg

\* rnn.py 211-212: NM(nm) = node.name + "_" + nm
NM(node, nm) == node.name \o "_" \o nm

\* rnn.py 213-217: [NM(tag + '_' + str(i)) for i in range(n)]
NMS(node, tag, n) == [k \in 1..n |-> NM(node, tag \o "_" \o ToString(k - 1))]

Int64(dims, data) == [dims |-> dims, data |-> data, dtype |-> "int64"]

\* rnn.py 177-181: X, X_shape, H, H_shape, P
cudnn_read(c, node) ==
    [c EXCEPT !.lv = [@ EXCEPT !.X = node.input[1], !.X_shape = c.shapes[node.input[1]],
                               !.H = node.input[2], !.H_shape = c.shapes[node.input[2]],
                               !.P = node.input[4]]]

\* Variant of cudnn_dropout_ok: the dropout attribute is not validated.
cudnn_dropout_ok_unchecked(node) == TRUE

\* rnn.py 183, 187, 191: the three conditions handed to utils.make_sure.
cudnn_mode_ok(node) == get_attr(node, "rnn_mode").s = "gru"

cudnn_dropout_ok(node) == get_attr(node, "dropout").v[1] = 0

cudnn_input_mode_ok(node) == get_attr(node, "input_mode").s = "linear_input"

\* rnn.py 194: num_dirs
cudnn_num_dirs(node) ==
    IF get_attr(node, "direction").s = "unidirectional" THEN 1 ELSE 2

\* rnn.py 195: num_layers = int(H_shape[0]/num_dirs)
cudnn_num_layers(H_shape, num_dirs) == PyIntDiv(H_shape[1], num_dirs)

\* rnn.py 194-197
cudnn_dims(c, node) ==
    LET num_dirs == cudnn_num_dirs(node)
    IN [c EXCEPT !.lv = [@ EXCEPT !.num_dirs = num_dirs,
                                  !.num_layers = cudnn_num_layers(c.lv.H_shape, num_dirs),
                                  !.hidden_size = c.lv.H_shape[3],
                                  !.input_size = c.lv.X_shape[3]]]

\* rnn.py 198-210: the shape constants and the segment-end constants.
cudnn_consts(c) ==
    LET l == c.lv
        n == l.num_layers * l.num_dirs
        w_shape == <<n, 3 * l.hidden_size, l.input_size>>
        r_shape == <<n, 3 * l.hidden_size, l.hidden_size>>
        b_shape == <<n, 6 * l.hidden_size>>
        w_end == SeqProd(w_shape)
        r_end == w_end + SeqProd(r_shape)
        b_end == r_end + SeqProd(b_shape)
        c1 == make_const(tick(c), make_name(c, "w_shape"), Int64(<<3>>, w_shape))
        c2 == make_const(tick(c1), make_name(c1, "r_shape"), Int64(<<3>>, r_shape))
        c3 == make_const(tick(c2), make_name(c2, "b_shape"), Int64(<<2>>, b_shape))
        c4 == make_const(tick(c3), make_name(c3, "zero"), Int64(<<1>>, <<0>>))
        c5 == make_const(tick(c4), make_name(c4, "w_end"), Int64(<<1>>, <<w_end>>))
        c6 == make_const(tick(c5), make_name(c5, "r_end"), Int64(<<1>>, <<r_end>>))
        c7 == make_const(tick(c6), make_name(c6, "b_end"), Int64(<<1>>, <<b_end>>))
    IN [c7 EXCEPT !.lv = [@ EXCEPT !.w_shape_const = LastNode(c1).output[1],
                                   !.r_shape_const = LastNode(c2).output[1],
                                   !.b_shape_const = LastNode(c3).output[1],
                                   !.zero_const = LastNode(c4).output[1],
                                   !.w_end = w_end, !.w_end_const = LastNode(c5).output[1],
                                   !.r_end = r_end, !.r_end_const = LastNode(c6).output[1],
                                   !.b_end = b_end, !.b_end_const = LastNode(c7).output[1]]]

\* rnn.py 211-220: the per-slice names, then the three Slices of P.
cudnn_slices(c, node) ==
    LET l == c.lv
        n == l.num_layers * l.num_dirs
        c1 == make_node(c, "Slice", <<l.P, l.zero_const, l.w_end_const>>, <<>>, 1)
        c2 == make_node(c1, "Slice", <<l.P, l.w_end_const, l.r_end_const>>, <<>>, 1)
        c3 == make_node(c2, "Slice", <<l.P, l.r_end_const, l.b_end_const>>, <<>>, 1)
    IN [c3 EXCEPT !.lv = [@ EXCEPT !.WS = NMS(node, "W", n), !.RS = NMS(node, "R", n),
                                   !.BS = NMS(node, "B", n), !.HS = NMS(node, "H", n),
                                   !.YHS = NMS(node, "YH", n),
                                   !.W_flattened = LastNode(c1).output[1],
                                   !.R_flattened = LastNode(c2).output[1],
                                   !.B_flattened = LastNode(c3).output[1]]]

\* rnn.py 221-226: W, R, B = Reshape of the three flat segments.
cudnn_reshapes(c) ==
    LET l == c.lv
        W == make_name(c, "W")
        R == make_name(tick(c), "R")
        B == make_name(tick(tick(c)), "B")
        c1 == make_node_named(tick(tick(tick(c))), "Reshape",
                              <<l.W_flattened, l.w_shape_const>>, <<>>, <<W>>)
        c2 == make_node_named(c1, "Reshape", <<l.R_flattened, l.r_shape_const>>, <<>>, <<R>>)
        c3 == make_node_named(c2, "Reshape", <<l.B_flattened, l.b_shape_const>>, <<>>, <<B>>)
    IN [c3 EXCEPT !.lv = [@ EXCEPT !.W = W, !.R = R, !.B = B]]

\* rnn.py 227-231: the four Splits; XNF = XNB = X.
cudnn_splits(c) ==
    LET l == c.lv
        c1 == make_node_named(c, "Split", <<l.W>>, <<>>, l.WS)
        c2 == make_node_named(c1, "Split", <<l.R>>, <<>>, l.RS)
        c3 == make_node_named(c2, "Split", <<l.B>>, <<>>, l.BS)
        c4 == make_node_named(c3, "Split", <<l.H>>, <<>>, l.HS)
    IN [c4 EXCEPT !.lv = [@ EXCEPT !.XNF = l.X, !.XNB = l.X]]

\* rnn.py 234-236, 241-243: the GRU over Xin with the parameters of suffix.
cudnn_gru(c, node, Xin, suffix, direction) ==
    make_node_named(c, "GRU",
                    <<Xin, NM(node, "W" \o suffix), NM(node, "R" \o suffix),
                      NM(node, "B" \o suffix), "", NM(node, "H" \o suffix)>>,
                    <<Attr("direction", <<>>, direction),
                      Attr("hidden_size", <<c.lv.hidden_size>>, "")>>,
                    <<NM(node, "Y" \o suffix), NM(node, "YH" \o suffix)>>)

\* rnn.py 233: the suffix of the forward GRU of layer i
cudnn_fwd_suffix(i, num_dirs) == "_" \o ToString(i * num_dirs)

\* Variant of cudnn_bwd_suffix: the reverse GRU reuses the forward index.
cudnn_bwd_suffix_forward_index(i) == "_" \o ToString(i * 2)

\* rnn.py 240: the suffix of the reverse GRU of layer i
cudnn_bwd_suffix(i) == "_" \o ToString(i * 2 + 1)

\* rnn.py 241: the sequence input of the reverse GRU
cudnn_bwd_input(l) == l.XNB

\* rnn.py 233-238: forward GRU of layer i and the Squeeze of its output.
cudnn_forward(c, node) ==
    LET l == c.lv
        suffix == cudnn_fwd_suffix(l.layer, l.num_dirs)
        c1 == cudnn_gru(c, node, l.XNF, suffix, "forward")
        XNF == NM(node, l.X \o suffix)
        c2 == make_node_named(c1, "Squeeze", <<NM(node, "Y" \o suffix)>>,
                              <<Attr("axes", <<1>>, "")>>, <<XNF>>)
    IN [c2 EXCEPT !.lv.XNF = XNF]

\* rnn.py 239-245: when bidirectional, the reverse GRU of layer i and the
\* Squeeze of its output; then the loop advances.
cudnn_backward(c, node) ==
    LET l == c.lv
        suffix == cudnn_bwd_suffix(l.layer)
        c1 == cudnn_gru(c, node, cudnn_bwd_input(l), suffix, "reverse")
        XNB == NM(node, l.X \o suffix)
        c2 == make_node_named(c1, "Squeeze", <<NM(node, "Y" \o suffix)>>,
                              <<Attr("axes", <<1>>, "")>>, <<XNB>>)
    IN IF l.num_dirs = 2
       THEN [c2 EXCEPT !.lv.XNB = XNB, !.lv.layer = @ + 1]
       ELSE [c EXCEPT !.lv.layer = @ + 1]

\* rnn.py 246: ctx.remove_node(node.name)
cudnn_remove(c, node) == remove_node(c, node.name)

\* rnn.py 247-250: the node that produces node.output[0]
cudnn_output0(c, node) ==
    IF c.lv.num_dirs = 2
    THEN make_node_named(c, "Concat", <<c.lv.XNF, c.lv.XNB>>,
                         <<Attr("axis", <<-1>>, "")>>, <<node.output[1]>>)
    ELSE make_node_named(c, "Identity", <<c.lv.XNF>>, <<>>, <<node.output[1]>>)

\* rnn.py 251: the Concat that produces node.output[1]
cudnn_output1(c, node) ==
    make_node_named(c, "Concat", c.lv.YHS, <<Attr("axis", <<0>>, "")>>, <<node.output[2]>>)

----------------------------------------------------------------------------
(* The actions: one per statement group, in program order.                 *)

node == TheNode(cfg)

Goto(to, c) ==
    /\ SetCtx(c)
    /\ pc' = to
    /\ UNCHANGED <<cfg, err>>

Raise(msg) ==
    /\ pc' = "failed"
    /\ err' = msg
    /\ UNCHANGED <<cfg, nodes, name_ctr, shapes, dtypes, lv, log>>

\* rnn.py 168-170: version_7 delegates to version_1.
LSTM_version_7 ==
    /\ pc = "version_7"
    /\ pc' = "version_1"
    /\ UNCHANGED <<cfg, nodes, name_ctr, shapes, dtypes, lv, log, err>>

LSTM_ReadAttrs ==
    /\ pc = "version_1"
    /\ Goto("l_xh", lstm_read_attrs(Ctx, node))

LSTM_Concat ==
    /\ pc = "l_xh"
    /\ Goto("l_xh_w", lstm_xh(Ctx))

LSTM_MatMul ==
    /\ pc = "l_xh_w"
    /\ Goto("l_check", lstm_xh_w(Ctx))

\* rnn.py 92-93
LSTM_CheckShape ==
    /\ pc = "l_check"
    /\ IF lstm_bad_w_shape(lv.w_shape)
       THEN Raise(lstm_w_shape_msg(node))
       ELSE Goto("l_split", Ctx)

LSTM_Split ==
    /\ pc = "l_split"
    /\ Goto("l_forget_bias", lstm_split(Ctx))

LSTM_ForgetBias ==
    /\ pc = "l_forget_bias"
    /\ Goto("l_zeros", lstm_forget_bias(Ctx, node))

LSTM_Zeros ==
    /\ pc = "l_zeros"
    /\ Goto("l_i", lstm_zeros(Ctx, node))

LSTM_InputGate ==
    /\ pc = "l_i"
    /\ Goto("l_f", lstm_i(Ctx))

LSTM_ForgetGate ==
    /\ pc = "l_f"
    /\ Goto("l_cs", lstm_f(Ctx))

LSTM_CellState ==
    /\ pc = "l_cs"
    /\ Goto("l_clip", lstm_cs(Ctx))

LSTM_Clip ==
    /\ pc = "l_clip"
    /\ Goto("l_o", lstm_clip(Ctx, node, cfg.opset))

LSTM_OutputGate ==
    /\ pc = "l_o"
    /\ Goto("l_h", lstm_o(Ctx))

LSTM_Hidden ==
    /\ pc = "l_h"
    /\ Goto("l_replace", lstm_h(Ctx))

\* rnn.py 160-166, one call per step; after the seventh the routine returns.
LSTM_Replace ==
    /\ pc = "l_replace"
    /\ Goto(IF lv.k = 6 THEN "done" ELSE "l_replace", lstm_replace(Ctx, node))

Cudnn_Read ==
    /\ pc = "version_11"
    /\ Goto("c_mode", cudnn_read(Ctx, node))

\* rnn.py 182-185
Cudnn_CheckMode ==
    /\ pc = "c_mode"
    /\ IF cudnn_mode_ok(node)
       THEN Goto("c_dropout", Ctx)
       ELSE Raise(make_sure_msg("rnn mode other than gru are not supported yet"))

\* rnn.py 186-189
Cudnn_CheckDropout ==
    /\ pc = "c_dropout"
    /\ IF cudnn_dropout_ok(node)
       THEN Goto("c_input_mode", Ctx)
       ELSE Raise(make_sure_msg("dropout not supported yet"))

\* rnn.py 190-193
Cudnn_CheckInputMode ==
    /\ pc = "c_input_mode"
    /\ IF cudnn_input_mode_ok(node)
       THEN Goto("c_dims", Ctx)
       ELSE Raise(make_sure_msg("input mode must be linear input"))

Cudnn_Dims ==
    /\ pc = "c_dims"
    /\ Goto("c_consts", cudnn_dims(Ctx, node))

Cudnn_Consts ==
    /\ pc = "c_consts"
    /\ Goto("c_slices", cudnn_consts(Ctx))

Cudnn_Slices ==
    /\ pc = "c_slices"
    /\ Goto("c_reshapes", cudnn_slices(Ctx, node))

Cudnn_Reshapes ==
    /\ pc = "c_reshapes"
    /\ Goto("c_splits", cudnn_reshapes(Ctx))

\* rnn.py 227-232: the Splits, then the loop is entered (or skipped).
Cudnn_Splits ==
    /\ pc = "c_splits"
    /\ Goto(IF lv.num_layers > 0 THEN "c_forward" ELSE "c_remove",
         cudnn_splits(Ctx))

Cudnn_Forward ==
    /\ pc = "c_forward"
    /\ Goto("c_backward", cudnn_forward(Ctx, node))

Cudnn_Backward ==
    /\ pc = "c_backward"
    /\ Goto(IF lv.layer + 1 < lv.num_layers THEN "c_forward" ELSE "c_remove",
         cudnn_backward(Ctx, node))

Cudnn_Remove ==
    /\ pc = "c_remove"
    /\ Goto("c_output0", cudnn_remove(Ctx, node))

Cudnn_Output0 ==
    /\ pc = "c_output0"
    /\ Goto("c_output1", cudnn_output0(Ctx, node))

Cudnn_Output1 ==
    /\ pc = "c_output1"
    /\ Goto("done", cudnn_output1(Ctx, node))

Next ==
    \/ LSTM_version_7
    \/ LSTM_ReadAttrs
    \/ LSTM_Concat
    \/ LSTM_MatMul
    \/ LSTM_CheckShape
    \/ LSTM_Split
    \/ LSTM_ForgetBias
    \/ LSTM_Zeros
    \/ LSTM_InputGate
    \/ LSTM_ForgetGate
    \/ LSTM_CellState
    \/ LSTM_Clip
    \/ LSTM_OutputGate
    \/ LSTM_Hidden
    \/ LSTM_Replace
    \/ Cudnn_Read
    \/ Cudnn_CheckMode
    \/ Cudnn_CheckDropout
    \/ Cudnn_CheckInputMode
    \/ Cudnn_Dims
    \/ Cudnn_Consts
    \/ Cudnn_Slices
    \/ Cudnn_Reshapes
    \/ Cudnn_Splits
    \/ Cudnn_Forward
    \/ Cudnn_Backward
    \/ Cudnn_Remove
    \/ Cudnn_Output0
    \/ Cudnn_Output1

Spec == Init /\ [][Next]_vars

----------------------------------------------------------------------------
(* Vocabulary of the properties.                                           *)

IsLSTM == cfg.op = "LSTMBlockCell"

IsCudnn == cfg.op = "CudnnRNN"

InitNames == {InitNodes(cfg)[j].name : j \in DOMAIN InitNodes(cfg)}

\* the nodes of sequence ns that the lowering created, in creation order
CreatedIn(ns, g) ==
    LET old == {InitNodes(g)[j].name : j \in DOMAIN InitNodes(g)}
    IN SelectSeq(ns, LAMBDA n : n.name \notin old)

NewNodes == CreatedIn(nodes, cfg)

FusedPresent == \E j \in DOMAIN nodes : nodes[j].name = node.name

Producers(v) == {j \in DOMAIN nodes : v \in Range(nodes[j].output)}

\* the node producing v (v has a producer)
Prod(v) == nodes[CHOOSE j \in DOMAIN nodes : v \in Range(nodes[j].output)]

LogIdx(ev, a) == {j \in DOMAIN log : log[j].ev = ev /\ log[j].a = a}

----------------------------------------------------------------------------
\* C1: in CudnnRNN.version_11, in every state of the lowering in which the
\* fused node is no longer in the graph, every node input that references
\* node.output[0] or node.output[1] has a producer in the graph (the fused
\* node is removed only after both final outputs have been created).
C1_RemovedOnlyAfterOutputsExist ==
    (IsCudnn /\ ~FusedPresent) =>
        \A j \in DOMAIN nodes : \A p \in DOMAIN nodes[j].input :
            nodes[j].input[p] \in {node.output[1], node.output[2]}
                => Producers(nodes[j].input[p]) # {}

\* C2: in LSTMBlockCell.version_1, when W's shape is not 2-dimensional with
\* a trailing dimension divisible by 4, the call ends in the error that
\* names the fused node and the graph is exactly the graph before the call.
C2_BadShapeCreatesNothing ==
    (IsLSTM /\ lstm_bad_w_shape(cfg.w_shape) /\ pc \in {"done", "failed"}) =>
        /\ pc = "failed"
        /\ err = lstm_w_shape_msg(node)
        /\ nodes = InitNodes(cfg)

\* C3: when LSTMBlockCell.version_1 / version_7 returns successfully the
\* fused node has been removed from the graph exactly once, and the removal
\* came after the rewiring of all 7 of its outputs.
C3_FusedNodeDeletedOnce ==
    (IsLSTM /\ pc = "done") =>
        /\ ~FusedPresent
        /\ Cardinality(LogIdx("remove_node", node.name)) = 1
        /\ \A r \in LogIdx("remove_node", node.name) : \A k \in 1..7 :
               \E j \in LogIdx("replace_all_inputs", node.output[k]) : j < r

\* C4: in CudnnRNN.version_11, when H's leading dimension is not a multiple
\* of the direction count the lowering never creates a node and never
\* completes; every completed run has num_layers * num_dirs = H_shape[0].
C4_InexactLayerCountFails ==
    IsCudnn =>
        /\ cfg.H0 % cudnn_num_dirs(node) # 0 => (NewNodes = <<>> /\ pc # "done")
        /\ pc = "done" => lv.num_layers * lv.num_dirs = cfg.H0

\* C5: in CudnnRNN.version_11, when rnn_mode is not "gru", or dropout is
\* not 0, or input_mode is not "linear_input", the call never gets past the
\* three checks, ends in an error, and the graph stays the graph before the
\* call: nothing created, the fused node still present.
C5_UnsupportedLeavesGraphUnchanged ==
    (IsCudnn /\ (\/ cfg.rnn_mode # "gru"
                 \/ cfg.dropout # 0
                 \/ cfg.input_mode # "linear_input")) =>
        /\ nodes = InitNodes(cfg)
        /\ FusedPresent
        /\ pc \in {"version_11", "c_mode", "c_dropout", "c_input_mode", "failed"}
        /\ pc = "failed" => err # ""

C5_Witness ==
    /\ IsCudnn
    /\ cfg.rnn_mode = "gru"
    /\ cfg.dropout # 0
    /\ pc = "failed"
    /\ err = make_sure_msg("dropout not supported yet")

----------------------------------------------------------------------------
(* The shape of the lowered LSTM cell, read off the graph.                 *)

IsOut(v) == Producers(v) # {}

OpOf(v) == IF IsOut(v) THEN Prod(v).op ELSE ""

TheSplit == nodes[CHOOSE j \in DOMAIN nodes : nodes[j].op = "Split"]

\* the values Sigmoid(Add(Mul(_, _), pre))
GateOf(pre) ==
    {v \in UNION {Range(nodes[j].output) : j \in DOMAIN nodes} :
        /\ OpOf(v) = "Sigmoid"
        /\ OpOf(Prod(v).input[1]) = "Add"
        /\ Prod(Prod(v).input[1]).input[2] = pre
        /\ OpOf(Prod(Prod(v).input[1]).input[1]) = "Mul"}

\* the Mul node inside the gate v
GateMul(v) == Prod(Prod(Prod(v).input[1]).input[1])

\* the Add nodes summing two products: cs = ci .* i + cs_prev .* f
SumNodes ==
    {j \in DOMAIN nodes :
        /\ nodes[j].op = "Add"
        /\ OpOf(nodes[j].input[1]) = "Mul"
        /\ OpOf(nodes[j].input[2]) = "Mul"}

TheSum == nodes[CHOOSE j \in SumNodes : TRUE].output[1]

ClipNodes == {j \in DOMAIN nodes : nodes[j].op = "Clip"}

\* the cell state the later nodes are meant to consume
CellState ==
    IF ClipNodes = {} THEN TheSum ELSE nodes[CHOOSE j \in ClipNodes : TRUE].output[1]

\* the Tanh nodes that do not read a Split output: co = Tanh(cs)
FinalTanhs ==
    {j \in DOMAIN nodes : nodes[j].op = "Tanh" /\ OpOf(nodes[j].input[1]) # "Split"}

\* the forget-gate pre-activation Add(f, forget_bias)
ForgetPre ==
    {v \in UNION {Range(nodes[j].output) : j \in DOMAIN nodes} :
        /\ OpOf(v) = "Add"
        /\ Prod(v).input[1] = TheSplit.output[3]
        /\ OpOf(Prod(v).input[2]) = "Const"}

\* the 7 new values in the order i, cs, f, o, ci, co, h, read off the graph
ExpectedOutputs(k) ==
    CASE k = 0 -> GateOf(TheSplit.output[1])
      [] k = 1 -> {CellState}
      [] k = 2 -> UNION {GateOf(p) : p \in ForgetPre}
      [] k = 3 -> GateOf(TheSplit.output[4])
      [] k = 4 -> {nodes[j].output[1] : j \in {j \in DOMAIN nodes :
                       nodes[j].op = "Tanh" /\ nodes[j].input = <<TheSplit.output[2]>>}}
      [] k = 5 -> {nodes[j].output[1] : j \in FinalTanhs}
      [] k = 6 -> {nodes[j].output[1] : j \in {j \in DOMAIN nodes :
                       /\ nodes[j].op = "Mul"
                       /\ nodes[j].input[1] \in {nodes[t].output[1] : t \in FinalTanhs}
                       /\ nodes[j].input[2] \in GateOf(TheSplit.output[4])}}

\* C6: after a successful LSTMBlockCell.version_1, every input of a node
\* that referenced the fused output k before the call references the k-th
\* new value (i, cs after the clamp, f, o, tanh(ci), tanh(cs), h), every
\* other input is unchanged and in place, and no node reads a fused output.
C6_ConsumersRewiredInOrder ==
    (IsLSTM /\ pc = "done") =>
        /\ \A k \in 0..6 : Cardinality(ExpectedOutputs(k)) = 1
        /\ \A j \in DOMAIN InitNodes(cfg) :
              /\ nodes[j].name = InitNodes(cfg)[j].name
              /\ Len(nodes[j].input) = Len(InitNodes(cfg)[j].input)
              /\ \A p \in DOMAIN nodes[j].input :
                    LET old == InitNodes(cfg)[j].input[p]
                    IN IF old \in Range(node.output)
                       THEN \E k \in 0..6 : /\ old = node.output[k + 1]
                                            /\ nodes[j].input[p] \in ExpectedOutputs(k)
                       ELSE nodes[j].input[p] = old
        /\ \A j \in DOMAIN nodes : Range(nodes[j].input) \cap Range(node.output) = {}

C6_Witness ==
    /\ IsLSTM
    /\ pc = "done"
    /\ cfg.cell_clip > 0
    /\ cfg.a = 1
    /\ Len(log) = 7
    /\ \E j \in DOMAIN nodes : nodes[j].name = "consA" /\ OpOf(nodes[j].input[1]) = "Clip"

\* C7: in LSTMBlockCell.version_1, with cell_clip <= 0 there is no Clip
\* node and the rewired cs output, the output-gate Mul and the final Tanh
\* read the sum ci*i + cs_prev*f; with cell_clip > 0 there is exactly one
\* Clip node, reading that sum, with bounds -cell_clip / +cell_clip given
\* as the attributes min / max below opset 11 and as two constant inputs
\* (min, then max) from opset 11, and the same three consumers read the
\* Clip output.
C7_ClipFollowsCellClipAndOpset ==
    (IsLSTM /\ pc = "done") =>
        LET clip == nodes[CHOOSE j \in ClipNodes : TRUE]
            cs == IF cfg.cell_clip > 0 THEN clip.output[1] ELSE TheSum
            consumers ==
                /\ \E j \in LogIdx("replace_all_inputs", node.output[2]) : log[j].b = cs
                /\ \A v \in GateOf(TheSplit.output[4]) : GateMul(v).input[1] = cs
                /\ \A j \in FinalTanhs : nodes[j].input = <<cs>>
        IN /\ Cardinality(SumNodes) = 1
           /\ Cardinality(FinalTanhs) = 1
           /\ Cardinality(GateOf(TheSplit.output[4])) = 1
           /\ IF cfg.cell_clip <= 0
              THEN ClipNodes = {} /\ consumers
              ELSE /\ Cardinality(ClipNodes) = 1
                   /\ clip.input[1] = TheSum
                   /\ IF cfg.opset < 11
                      THEN /\ Len(clip.input) = 1
                           /\ {a \in Range(clip.attr) : a.k = "min"}
                                = {Attr("min", <<-cfg.cell_clip>>, "")}
                           /\ {a \in Range(clip.attr) : a.k = "max"}
                                = {Attr("max", <<cfg.cell_clip>>, "")}
                      ELSE /\ Len(clip.input) = 3
                           /\ clip.attr = <<>>
                           /\ OpOf(clip.input[2]) = "Const"
                           /\ Prod(clip.input[2]).value.data = <<-cfg.cell_clip>>
                           /\ OpOf(clip.input[3]) = "Const"
                           /\ Prod(clip.input[3]).value.data = <<cfg.cell_clip>>
                   /\ consumers

C7_Witness ==
    /\ IsLSTM
    /\ pc = "done"
    /\ cfg.cell_clip > 0
    /\ cfg.opset >= 11
    /\ \E j \in ClipNodes : Len(nodes[j].input) = 3

----------------------------------------------------------------------------
(* The shape of the lowered CudnnRNN, read off the graph.                  *)

NumDirs == IF cfg.direction = "unidirectional" THEN 1 ELSE 2

NumLayers == cfg.H0 \div NumDirs

SliceName(tag, k) == node.name \o "_" \o tag \o "_" \o ToString(k)

\* the GRU nodes that read the weight slice W_k
GRUOf(k) == {j \in DOMAIN nodes : nodes[j].op = "GRU" /\ nodes[j].input[2] = SliceName("W", k)}

GRUDirection(n) == get_attr(n, "direction").s

\* C8: in a bidirectional CudnnRNN.version_11, for every layer i the
\* reverse GRU of layer i reads as its sequence input the value the forward
\* GRU of layer i reads, never the (squeezed) output of that forward GRU,
\* and it uses the parameters and initial state of index 2*i+1.
C8_ReverseReadsLayerInput ==
    (IsCudnn /\ pc = "done" /\ NumDirs = 2) =>
        \A i \in 0..(NumLayers - 1) :
            /\ Cardinality(GRUOf(2 * i)) = 1
            /\ Cardinality(GRUOf(2 * i + 1)) = 1
            /\ \A r \in GRUOf(2 * i + 1) : \A f \in GRUOf(2 * i) :
                  /\ GRUDirection(nodes[r]) = "reverse"
                  /\ GRUDirection(nodes[f]) = "forward"
                  /\ nodes[r].input[1] = nodes[f].input[1]
                  /\ IsOut(nodes[r].input[1]) /\ Prod(nodes[r].input[1]).op = "Squeeze"
                        => Prod(nodes[r].input[1]).input[1] # nodes[f].output[1]
                  /\ SubSeq(nodes[r].input, 2, 6) =
                        <<SliceName("W", 2 * i + 1), SliceName("R", 2 * i + 1),
                          SliceName("B", 2 * i + 1), "", SliceName("H", 2 * i + 1)>>

\* the (node, position) pairs at which v is read
ReadersOf(v) ==
    UNION {{<<j, p>> : p \in Positions(nodes[j].input, v)} : j \in DOMAIN nodes}

\* C10: after a successful CudnnRNN.version_11 with L >= 1 layers and D
\* directions, every non-empty input of every created node is an original
\* input of the fused node or the output of exactly one node of the graph,
\* no output name has two producers, each slice W_k, R_k, B_k, H_k
\* (k < L*D) is read by exactly one GRU node, and the Concat producing
\* node.output[1] reads YH_0 .. YH_{L*D-1} in index order k = layer*D +
\* direction, each YH_k produced by exactly one GRU node.
C10_LoweredGraphWellFormed ==
    (IsCudnn /\ pc = "done" /\ NumLayers >= 1) =>
        /\ \A j \in DOMAIN nodes : nodes[j].name \notin InitNames =>
              \A p \in DOMAIN nodes[j].input :
                  nodes[j].input[p] # "" =>
                      \/ nodes[j].input[p] \in Range(node.input)
                      \/ Cardinality(Producers(nodes[j].input[p])) = 1
        /\ \A j \in DOMAIN nodes :
              /\ Cardinality(Range(nodes[j].output)) = Len(nodes[j].output)
              /\ \A v \in Range(nodes[j].output) : Producers(v) = {j}
        /\ \A k \in 0..(NumLayers * NumDirs - 1) :
              \A tag \in {"W", "R", "B", "H"} :
                  /\ Cardinality(ReadersOf(SliceName(tag, k))) = 1
                  /\ \A r \in ReadersOf(SliceName(tag, k)) : r[1] \in GRUOf(k)
        /\ Cardinality(Producers(node.output[2])) = 1
        /\ Prod(node.output[2]).op = "Concat"
        /\ Prod(node.output[2]).input =
              [k \in 1..(NumLayers * NumDirs) |-> SliceName("YH", k - 1)]
        /\ \A k \in 0..(NumLayers * NumDirs - 1) :
              /\ Cardinality(Producers(SliceName("YH", k))) = 1
              /\ Producers(SliceName("YH", k)) = GRUOf(k)
              /\ GRUDirection(Prod(SliceName("YH", k))) =
                    (IF k % NumDirs = 0 THEN "forward" ELSE "reverse")
              /\ Prod(SliceName("YH", k)).output[2] = SliceName("YH", k)

C10_Witness ==
    /\ IsCudnn
    /\ pc = "done"
    /\ NumLayers = 2
    /\ NumDirs = 2
    /\ Cardinality({j \in DOMAIN nodes : nodes[j].op = "GRU"}) = 4
    /\ Len(Prod(node.output[2]).input) = 4

----------------------------------------------------------------------------
(* The lowering of an LSTM cell as one function of the configuration, for  *)
(* comparing the subgraphs two configurations produce.                     *)

RECURSIVE lstm_replace_all(_, _)
lstm_replace_all(c, n) ==
    IF c.lv.k > 6 THEN c ELSE lstm_replace_all(lstm_replace(c, n), n)

\* rnn.py 73-166: LSTMBlockCell.version_1 on a W of acceptable shape.
lstm_version_1(g) ==
    LET n == TheNode(g)
        c1 == lstm_xh_w(lstm_xh(lstm_read_attrs(InitCtx(g), n)))
        c2 == lstm_zeros(lstm_forget_bias(lstm_split(c1), n), n)
        c3 == lstm_clip(lstm_cs(lstm_f(lstm_i(c2))), n, g.opset)
    IN lstm_replace_all(lstm_h(lstm_o(c3)), n)

\* the zero-filled peephole placeholders among the created nodes ns
ZeroConsts(ns) ==
    {j \in DOMAIN ns : ns[j].op = "Const" /\ ns[j].value.dims # <<>>}

\* Input v of a created node, up to the names make_name hands out: slot s
\* of the m-th created node, the peephole weight, or a value from outside.
CanonRef(ns, peephole, v) ==
    IF v \in peephole THEN "<peephole>"
    ELSE LET at == {<<m, q>> \in (DOMAIN ns) \X (1..4) :
                        q \in DOMAIN ns[m].output /\ ns[m].output[q] = v}
         IN IF at = {} THEN v
            ELSE LET a == CHOOSE a \in at : TRUE
                 IN "#" \o ToString(a[1]) \o "." \o ToString(a[2])

\* the created nodes ns: operators, wiring, attributes, constants, in order
Canon(ns, peephole) ==
    [m \in DOMAIN ns |->
        [op |-> ns[m].op,
         input |-> [p \in DOMAIN ns[m].input |-> CanonRef(ns, peephole, ns[m].input[p])],
         nout |-> Len(ns[m].output),
         attr |-> ns[m].attr,
         value |-> ns[m].value]]

\* C9: the subgraph built with use_peephole false is the subgraph built
\* for the same node, inputs and opset with use_peephole true, with wci,
\* wcf, wco each replaced by one zero-filled constant vector of length
\* w_shape[1]/4: same operators in the same order with the same wiring,
\* the three gate Mul nodes read the zero vector, and no created node
\* reads the node's wci, wcf, wco inputs.
C9_NoPeepholeIsZeroPeephole ==
    (IsLSTM /\ pc = "done" /\ ~cfg.use_peephole) =>
        LET zs == ZeroConsts(NewNodes)
            z == NewNodes[CHOOSE j \in zs : TRUE]
            rest == SelectSeq(NewNodes, LAMBDA n : n.name # z.name)
            with == lstm_version_1([cfg EXCEPT !.use_peephole = TRUE])
            peep == {node.input[5], node.input[6], node.input[7]}
        IN /\ Cardinality(zs) = 1
           /\ z.value.dims = <<cfg.w_shape[2] \div 4>>
           /\ z.value.data = [k \in 1..(cfg.w_shape[2] \div 4) |-> 0]
           /\ Canon(rest, {z.output[1]}) = Canon(CreatedIn(with.nodes, cfg), peep)
           /\ Cardinality({j \in DOMAIN NewNodes :
                             NewNodes[j].op = "Mul" /\ NewNodes[j].input[2] = z.output[1]}) = 3
           /\ \A j \in DOMAIN NewNodes : Range(NewNodes[j].input) \cap peep = {}

C9_Witness ==
    /\ IsLSTM
    /\ pc = "done"
    /\ ~cfg.use_peephole
    /\ cfg.w_shape = <<3, 8>>
    /\ \E j \in DOMAIN nodes : nodes[j].op = "Const" /\ nodes[j].value.data = <<0, 0>>

====
